---------------------------- MODULE Spec2Model ----------------------------
(***************************************************************************)
(* A model of slicely's DBUnit (src/slicely/_slicely.py): a manager that   *)
(* opens a LevelDB handle lazily, keeps a release deadline for it, and     *)
(* closes it from a background thread (_auto_release) once the deadline    *)
(* has passed.  WriteBatch and Iterator suspend the deadline.              *)
(*                                                                         *)
(* Time is counted in ticks of 100 ms: the poll timeout of the background  *)
(* thread (lock.wait(timeout=0.1)), the default retry interval and the     *)
(* 0.1 that _set_release_time compares with are all one tick.              *)
(***************************************************************************)
EXTENDS Integers, FiniteSets, TLC

(***************************************************************************)
(* Bounds of the model.                                                    *)
(***************************************************************************)
\* The clock stops at MaxTime ticks.
MaxTime == 14

\* The caller threads.
Callers == {"c1", "c2"}

\* The caller that acts where one caller thread is enough.
Single == {"c1"}

(***************************************************************************)
(* Program constants.                                                      *)
(***************************************************************************)
\* INF_RELEASE_TIME = -1 (line 33).
INF_RELEASE_TIME == -1

\* One second in ticks: timedelta.seconds (line 178) counts whole seconds.
TicksPerSec == 10

\* timedelta.seconds is the seconds component, 0..86399, days apart.
SecondsPerDay == 86400

\* The literal 0.1 of lines 178-179, in ticks.
DebounceTicks == 1

\* lock.wait(timeout=0.1), line 206, in ticks.
PollTicks == 1

\* The constructor's parameters (line 106), in ticks: the manager under
\* study is DBUnit(path, auto_release_interval=1.2, retry_interval=0.1,
\* default_timeout=0.2).
auto_release_interval == 12

retry_interval == 1

default_timeout == 2

\* Python's None, for an argument left out and for the absent handle.
None == "None"

\* The value a put writes under the key, and the key not being there.
Value == "value"

Nothing == "nothing"

\* The handle plyvel.DB(...) returns.
DB == "DB"

\* The background thread (self._auto_releaser), as a lock owner.
Releaser == "releaser"

NoThread == "nobody"

(***************************************************************************)
(* State.                                                                  *)
(***************************************************************************)
VARIABLES
    now,            \* datetime.now(), in ticks
    _db,            \* self._db: None or the handle
    engine,         \* the plyvel.DB objects opened and not yet closed
    _release_time,  \* self._release_time: INF_RELEASE_TIME or an instant
    is_closed,      \* self.is_closed
    lock,           \* self.lock, a Condition over an RLock: owner and depth
    rpc,            \* position of the _auto_release thread
    rwake,          \* the instant its lock.wait(timeout=0.1) times out
    notified,       \* a lock.notify() reached it while it waits
    pc,             \* position of each caller thread
    call,           \* the operation each caller is in, with its arguments
    time_limit,     \* acquire's local time_limit
    first_flag,     \* acquire's local first_flag
    wake,           \* the instant a caller's sleep(retry_interval) ends
    result,         \* what acquire returned to the operation in progress
    batch,          \* the caller's WriteBatch, if any
    iter,           \* the caller's Iterator, if any
    inside,         \* the caller is inside a "with udb:" block
    store,          \* what the LevelDB at self.path holds under the key
    pickled,        \* the result of pickle.dumps(udb), if taken
    copy            \* the manager pickle.loads built from it, if built

managerVars == <<_db, engine, _release_time, is_closed>>

releaserVars == <<rpc, rwake, notified>>

acquireVars == <<time_limit, first_flag, wake>>

copyVars == <<pickled, copy>>

scopedVars == <<batch, iter, inside, store, copyVars>>

vars == <<now, _db, engine, _release_time, is_closed, lock, rpc, rwake, notified,
          pc, call, time_limit, first_flag, wake, result, batch, iter, inside,
          store, pickled, copy>>

(***************************************************************************)
(* The lock: Condition() with no argument wraps an RLock (line 112).       *)
(***************************************************************************)
FreeLock == [owner |-> NoThread, count |-> 0]

\* lock.acquire() does not block for thread t.
CanLock(t) == lock.owner \in {NoThread, t}

LockAcquire(l, t) ==
    IF l.owner = t THEN [l EXCEPT !.count = @ + 1]
    ELSE [owner |-> t, count |-> 1]

LockRelease(l) ==
    IF l.count <= 1 THEN FreeLock ELSE [l EXCEPT !.count = @ - 1]

(***************************************************************************)
(* Arguments of _set_release_time: a number of seconds (here ticks), the   *)
(* sentinel, a datetime, or a timedelta.                                   *)
(***************************************************************************)
Num(n) == [kind |-> "number", v |-> n]

DateTime(t) == [kind |-> "datetime", v |-> t]

TimeDelta(d) == [kind |-> "timedelta", v |-> d]

\* An optional numeric argument: left out (None), or a number.
NoArg == [given |-> FALSE, v |-> 0]

Arg(n) == [given |-> TRUE, v |-> n]

\* Python's "x or d" for such an argument: None and 0 are falsy.
OrDefault(x, d) == IF ~x.given \/ x.v = 0 THEN d ELSE x.v

Max(a, b) == IF a >= b THEN a ELSE b

\* timedelta.seconds of a non-negative difference of d ticks.
Seconds(d) == (d \div TicksPerSec) % SecondsPerDay

\* "(a - b).seconds > 0.1", both sides brought to ticks.
SecondsOver(d) == Seconds(d) * TicksPerSec > DebounceTicks

(***************************************************************************)
(* _set_release_time (lines 167-185): the deadline it leaves and whether   *)
(* it calls lock.notify(), from the current deadline cur, its argument     *)
(* and the clock t.  A number becomes an instant (line 174); a timedelta   *)
(* is added to the clock in the local variable only (line 176), the elif   *)
(* of the store hanging on that if; an instant is stored when the current  *)
(* deadline is the sentinel or the seconds component of the difference is  *)
(* over 0.1.                                                               *)
(***************************************************************************)
\* The same with total_seconds() for .seconds: the whole difference, in
\* ticks, compared with 0.1.
SetReleaseTimeTotalSeconds(cur, release_time, t) ==
    IF release_time.kind = "number" /\ release_time.v = INF_RELEASE_TIME
    THEN [release_time |-> INF_RELEASE_TIME, notify |-> FALSE]
    ELSE LET rt == IF release_time.kind = "number"
                   THEN DateTime(Max(0, release_time.v) + t)
                   ELSE release_time
         IN  IF rt.kind = "timedelta"
             THEN [release_time |-> cur, notify |-> FALSE]
             ELSE IF \/ cur = INF_RELEASE_TIME
                     \/ (rt.v > cur /\ rt.v - cur > DebounceTicks)
                     \/ (rt.v < cur /\ cur - rt.v > DebounceTicks)
                  THEN [release_time |-> rt.v, notify |-> TRUE]
                  ELSE [release_time |-> cur, notify |-> FALSE]

\* The same with no test of the difference: an instant other than the
\* current deadline is stored.
SetReleaseTimeNoDebounce(cur, release_time, t) ==
    IF release_time.kind = "number" /\ release_time.v = INF_RELEASE_TIME
    THEN [release_time |-> INF_RELEASE_TIME, notify |-> FALSE]
    ELSE LET rt == IF release_time.kind = "number"
                   THEN DateTime(Max(0, release_time.v) + t)
                   ELSE release_time
         IN  IF rt.kind = "timedelta"
             THEN [release_time |-> cur, notify |-> FALSE]
             ELSE IF cur = INF_RELEASE_TIME \/ rt.v # cur
                  THEN [release_time |-> rt.v, notify |-> TRUE]
                  ELSE [release_time |-> cur, notify |-> FALSE]

SetReleaseTime(cur, release_time, t) ==
    IF release_time.kind = "number" /\ release_time.v = INF_RELEASE_TIME
    THEN [release_time |-> INF_RELEASE_TIME, notify |-> FALSE]
    ELSE LET rt == IF release_time.kind = "number"
                   THEN DateTime(Max(0, release_time.v) + t)
                   ELSE release_time
         IN  IF rt.kind = "timedelta"
             THEN [release_time |-> cur, notify |-> FALSE]
             ELSE IF \/ cur = INF_RELEASE_TIME
                     \/ (rt.v > cur /\ SecondsOver(rt.v - cur))
                     \/ (rt.v < cur /\ SecondsOver(cur - rt.v))
                  THEN [release_time |-> rt.v, notify |-> TRUE]
                  ELSE [release_time |-> cur, notify |-> FALSE]

\* _wait_predicate without the test of line 190.
WaitPredicateNoSentinel(db, release_time, t) ==
    \/ db = None
    \/ release_time > t

\* _wait_predicate (lines 187-194).
WaitPredicate(db, release_time, t) ==
    \/ db = None
    \/ release_time = INF_RELEASE_TIME
    \/ release_time > t

\* is_acquired (lines 246-248).
IsAcquired(db) == db # None

\* lock.notify() (line 182) wakes the background thread if it is waiting.
Notify(n) == IF n /\ rpc = "wait" THEN TRUE ELSE notified

\* The effect of _set_release_time on the manager, under the lock.
ApplyReleaseTime(release_time) ==
    LET r == SetReleaseTime(_release_time, release_time, now)
    IN  /\ _release_time' = r.release_time
        /\ notified' = Notify(r.notify)

\* release (lines 162-165), under the lock.
ReleaseBody ==
    IF IsAcquired(_db)
    THEN ApplyReleaseTime(DateTime(now))
    ELSE UNCHANGED <<_release_time, notified>>

(***************************************************************************)
(* The clock.  A timeout that would end past MaxTime ends at MaxTime, so   *)
(* that a thread that waits or sleeps is not held by the clock's bound.    *)
(***************************************************************************)
Min(a, b) == IF a <= b THEN a ELSE b

Horizon(t) == Min(t, MaxTime)

Tick ==
    /\ now < MaxTime
    /\ now' = now + 1
    /\ UNCHANGED <<managerVars, lock, releaserVars, pc, call, acquireVars,
                   result, scopedVars>>

(***************************************************************************)
(* Callers.  A caller is idle or inside one operation of the manager, of a *)
(* WriteBatch or of an Iterator.  call[c] names the operation and keeps    *)
(* the arguments of the acquire it runs, and in "before" the handle and    *)
(* the deadline the operation found when it took the lock.                 *)
(***************************************************************************)
Snapshot == [db |-> _db, release_time |-> _release_time]

NoSnapshot == [db |-> None, release_time |-> INF_RELEASE_TIME]

NoCall ==
    [op |-> "none", release_interval |-> NoArg, timeout |-> NoArg,
     outside |-> TRUE, transaction |-> FALSE, before |-> NoSnapshot]

NewCall(op, release_interval, timeout, outside, transaction, before) ==
    [op |-> op, release_interval |-> release_interval, timeout |-> timeout,
     outside |-> outside, transaction |-> transaction, before |-> before]

NoBatch == [stage |-> "none", transaction |-> FALSE]

\* get, put and delete: load_leveldb_deco() with no arguments (250-260).
FacadeOps == {"get", "put", "delete"}

\* A caller starts self.acquire(...) from outside: it is at lock.acquire()
\* of lock_deco (line 17).
StartAcquire(c, op, release_interval, timeout, transaction) ==
    /\ pc[c] = "idle"
    /\ pc' = [pc EXCEPT ![c] = "acquire"]
    /\ call' = [call EXCEPT ![c] =
          NewCall(op, release_interval, timeout, TRUE, transaction,
                  NoSnapshot)]
    /\ result' = [result EXCEPT ![c] = None]
    /\ UNCHANGED <<now, managerVars, lock, releaserVars, acquireVars,
                   scopedVars>>

\* load_leveldb_deco (lines 24-31) around get, put, delete.
Facade(c, op) == StartAcquire(c, op, NoArg, NoArg, FALSE)

\* A direct call of acquire(release_interval, timeout).
Acquire(c, release_interval, timeout) ==
    StartAcquire(c, "acquire", release_interval, timeout, FALSE)

\* The locals of acquire (lines 224-228), set with the lock held.
AcquireLocals(c, timeout) ==
    /\ time_limit' = [time_limit EXCEPT ![c] =
          now + Max(OrDefault(timeout, default_timeout), 0)]
    /\ first_flag' = [first_flag EXCEPT ![c] = TRUE]

\* The locals of acquire end with it.
DropLocals(c) ==
    /\ time_limit' = [time_limit EXCEPT ![c] = 0]
    /\ first_flag' = [first_flag EXCEPT ![c] = FALSE]

\* "release_interval or self._auto_release_interval" (line 226).
Interval(release_interval) ==
    OrDefault(release_interval, auto_release_interval)

\* lock_deco lets the caller into acquire (lines 17-18, 224-228).
AcquireEnter(c) ==
    /\ pc[c] = "acquire"
    /\ CanLock(c)
    /\ lock' = LockAcquire(lock, c)
    /\ AcquireLocals(c, call[c].timeout)
    /\ call' = [call EXCEPT ![c].release_interval = Arg(Interval(@)),
                            ![c].before = Snapshot]
    /\ pc' = [pc EXCEPT ![c] = "acquire_loop"]
    /\ UNCHANGED <<now, managerVars, releaserVars, wake, result, scopedVars>>

\* The loop condition of acquire (line 229).
LoopCondition(c) == first_flag[c] \/ time_limit[c] > now

\* Lines 235-238 without the test of line 233: plyvel.DB(...) is called
\* whether or not the handle is there.
AcquireSucceedAlwaysOpens(c) ==
    /\ pc[c] = "acquire_loop"
    /\ LoopCondition(c)
    /\ _db' = DB
    /\ engine' = engine + 1
    /\ ApplyReleaseTime(Num(call[c].release_interval.v))
    /\ result' = [result EXCEPT ![c] = "True"]
    /\ pc' = [pc EXCEPT ![c] = "return"]
    /\ DropLocals(c)
    /\ UNCHANGED <<now, is_closed, lock, rpc, rwake, call, wake, scopedVars>>

\* Lines 233-238: the handle is there, or plyvel.DB(...) opens it, which
\* it can when no other manager has the path open; the deadline is set
\* and acquire returns True.
AcquireSucceed(c) ==
    /\ pc[c] = "acquire_loop"
    /\ LoopCondition(c)
    /\ IsAcquired(_db) \/ engine = 0
    /\ _db' = DB
    /\ engine' = IF IsAcquired(_db) THEN engine ELSE engine + 1
    /\ ApplyReleaseTime(Num(call[c].release_interval.v))
    /\ result' = [result EXCEPT ![c] = "True"]
    /\ pc' = [pc EXCEPT ![c] = "return"]
    /\ DropLocals(c)
    /\ UNCHANGED <<now, is_closed, lock, rpc, rwake, call, wake, scopedVars>>

\* Lines 235, 239-243: plyvel.DB(...) raises plyvel.Error (the path is
\* locked by another opener); the caller sleeps, keeping the lock.
AcquireBusy(c) ==
    /\ pc[c] = "acquire_loop"
    /\ LoopCondition(c)
    /\ ~IsAcquired(_db)
    /\ first_flag' = [first_flag EXCEPT ![c] = FALSE]
    /\ wake' = [wake EXCEPT ![c] = Horizon(now + retry_interval)]
    /\ pc' = [pc EXCEPT ![c] = "acquire_sleep"]
    /\ UNCHANGED <<now, managerVars, lock, releaserVars, call, time_limit,
                   result, scopedVars>>

\* sleep(self._retry_interval) ends (line 241), back to line 229.
AcquireRetry(c) ==
    /\ pc[c] = "acquire_sleep"
    /\ now >= wake[c]
    /\ wake' = [wake EXCEPT ![c] = 0]
    /\ pc' = [pc EXCEPT ![c] = "acquire_loop"]
    /\ UNCHANGED <<now, managerVars, lock, releaserVars, call, time_limit,
                   first_flag, result, scopedVars>>

\* The loop ends on the time limit: return False (line 244).
AcquireTimeout(c) ==
    /\ pc[c] = "acquire_loop"
    /\ ~LoopCondition(c)
    /\ result' = [result EXCEPT ![c] = "False"]
    /\ pc' = [pc EXCEPT ![c] = "return"]
    /\ DropLocals(c)
    /\ UNCHANGED <<now, managerVars, lock, releaserVars, call, wake,
                   scopedVars>>

(***************************************************************************)
(* A method of the manager returns: lock_deco releases the lock (line 20)  *)
(* and the caller goes on with the rest of its operation: the wrapper of   *)
(* load_leveldb_deco (lines 27-29), WriteBatch.__enter__ and __exit__,     *)
(* Iterator.__iter__ (lines 74-79) and Iterator.close.                     *)
(***************************************************************************)
\* The wrapper of load_leveldb_deco without the test of acquire's result
\* (line 27): the wrapped function runs in any case.
ContinueUnchecked(c) ==
    LET op == call[c].op
        ok == result[c] = "True"
    IN  CASE op \in FacadeOps \cup {"write_batch"} -> "func"
          [] op = "Iterator.__iter__" ->
               IF ok \/ ~call[c].outside THEN "cursor" ELSE "acquire"
          [] OTHER -> "idle"

Continue(c) ==
    LET op == call[c].op
        ok == result[c] = "True"
    IN  CASE op \in FacadeOps \cup {"write_batch"} ->
               IF ok THEN "func" ELSE "idle"
          [] op = "Iterator.__iter__" ->
               IF ok \/ ~call[c].outside THEN "cursor" ELSE "acquire"
          [] OTHER -> "idle"

Return(c) ==
    /\ pc[c] = "return"
    /\ lock' = LockRelease(lock)
    /\ pc' = [pc EXCEPT ![c] = Continue(c)]
    /\ call' = [call EXCEPT ![c] =
          IF Continue(c) = "idle" THEN NoCall
          ELSE [@ EXCEPT !.before = NoSnapshot]]
    /\ iter' = [iter EXCEPT ![c] =
          CASE call[c].op = "iterator" /\ result[c] = "True" -> "created"
            [] call[c].op = "Iterator.close" -> "none"
            [] OTHER -> @]
    /\ batch' = [batch EXCEPT ![c] =
          CASE call[c].op = "WriteBatch.__enter__" ->
                 [@ EXCEPT !.stage = "entered"]
            [] call[c].op = "WriteBatch.__exit__" -> NoBatch
            [] OTHER -> @]
    /\ inside' = [inside EXCEPT ![c] =
          CASE call[c].op = "DBUnit.__enter__" /\ result[c] = "True" -> TRUE
            [] call[c].op = "DBUnit.__exit__" -> FALSE
            [] OTHER -> @]
    /\ UNCHANGED <<store, copyVars>>
    /\ result' = [result EXCEPT ![c] = IF Continue(c) = "idle" THEN None ELSE @]
    /\ UNCHANGED <<now, managerVars, releaserVars, acquireVars>>

(***************************************************************************)
(* After acquire returned True the wrapped function runs, outside the      *)
(* lock: get, put and delete go to self.db (lines 215-217, 250-260), and   *)
(* write_batch builds WriteBatch(self, ...), whose __init__ calls          *)
(* udb.db.write_batch (line 38).  self.db is {} when the handle is absent, *)
(* and {} has no write_batch.                                              *)
(***************************************************************************)
Func(c) ==
    /\ pc[c] = "func"
    /\ pc' = [pc EXCEPT ![c] = "idle"]
    /\ call' = [call EXCEPT ![c] = NoCall]
    /\ batch' = [batch EXCEPT ![c] =
          IF call[c].op = "write_batch" /\ IsAcquired(_db)
          THEN [stage |-> "created", transaction |-> call[c].transaction]
          ELSE @]
    /\ store' = IF call[c].op = "put" /\ IsAcquired(_db) THEN Value
                ELSE IF call[c].op = "delete" /\ IsAcquired(_db) THEN Nothing
                ELSE store
    /\ result' = [result EXCEPT ![c] = None]
    /\ UNCHANGED <<now, managerVars, lock, releaserVars, acquireVars, iter,
                   inside, copyVars>>

(***************************************************************************)
(* The short methods: each takes the lock in lock_deco (line 17) and runs  *)
(* with no wait inside; the caller is then at lock_deco's release.         *)
(***************************************************************************)
ShortCall(op) == NewCall(op, NoArg, NoArg, FALSE, FALSE, Snapshot)

ShortEnter(c, op) ==
    /\ CanLock(c)
    /\ lock' = LockAcquire(lock, c)
    /\ call' = [call EXCEPT ![c] = ShortCall(op)]
    /\ pc' = [pc EXCEPT ![c] = "return"]

\* release() that closes the handle itself instead of setting the deadline.
ReleaseCallCloses(c, op) ==
    /\ ShortEnter(c, op)
    /\ _db' = None
    /\ engine' = IF IsAcquired(_db) THEN engine - 1 ELSE engine
    /\ _release_time' = INF_RELEASE_TIME
    /\ UNCHANGED <<now, is_closed, rpc, rwake, notified, acquireVars,
                   result, scopedVars>>

\* release() (lines 162-165), called by the operation op.
ReleaseCall(c, op) ==
    /\ ShortEnter(c, op)
    /\ ReleaseBody
    /\ UNCHANGED <<now, _db, engine, is_closed, rpc, rwake, acquireVars,
                   result, scopedVars>>

Release(c) ==
    /\ pc[c] = "idle"
    /\ ReleaseCall(c, "release")

\* suspend_releaser and restart_releaser on an absent handle call
\* acquire(..., _from_outside=False) with the lock held (lines 153, 160).
AcquireInside(c, op, release_interval) ==
    /\ CanLock(c)
    /\ lock' = LockAcquire(lock, c)
    /\ call' = [call EXCEPT ![c] =
          NewCall(op, Arg(Interval(release_interval)), NoArg, FALSE, FALSE,
                  Snapshot)]
    /\ AcquireLocals(c, NoArg)
    /\ pc' = [pc EXCEPT ![c] = "acquire_loop"]
    /\ result' = [result EXCEPT ![c] = None]
    /\ UNCHANGED <<_release_time, notified>>

\* suspend_releaser() (lines 148-153), called by the operation op.
SuspendCall(c, op) ==
    /\ IF IsAcquired(_db)
       THEN /\ ShortEnter(c, op)
            /\ ApplyReleaseTime(Num(INF_RELEASE_TIME))
            /\ UNCHANGED <<acquireVars, result>>
       ELSE /\ AcquireInside(c, op, Arg(INF_RELEASE_TIME))
            /\ UNCHANGED wake
    /\ UNCHANGED <<now, _db, engine, is_closed, rpc, rwake, scopedVars>>

SuspendReleaser(c) ==
    /\ pc[c] = "idle"
    /\ SuspendCall(c, "suspend_releaser")

\* restart_releaser(release_interval) (lines 155-160).
RestartReleaser(c, release_interval) ==
    /\ pc[c] = "idle"
    /\ IF IsAcquired(_db)
       THEN /\ ShortEnter(c, "restart_releaser")
            /\ ApplyReleaseTime(Num(Interval(release_interval)))
            /\ UNCHANGED <<acquireVars, result>>
       ELSE /\ AcquireInside(c, "restart_releaser", release_interval)
            /\ UNCHANGED wake
    /\ UNCHANGED <<now, _db, engine, is_closed, rpc, rwake, scopedVars>>

(***************************************************************************)
(* close() (lines 136-143): with the lock, set is_closed and call          *)
(* release(); the Thread object is always true (line 139).  Then give the  *)
(* lock up, join the background thread, take the lock again and return.    *)
(***************************************************************************)
CloseEnter(c) ==
    /\ pc[c] = "idle"
    /\ CanLock(c)
    /\ is_closed' = TRUE
    /\ ReleaseBody
    /\ pc' = [pc EXCEPT ![c] = "close_join"]
    /\ call' = [call EXCEPT ![c] = ShortCall("close")]
    /\ UNCHANGED <<now, _db, engine, lock, rpc, rwake, acquireVars, result,
                   scopedVars>>

\* self._auto_releaser.join() returns once the thread has ended.
CloseJoin(c) ==
    /\ pc[c] = "close_join"
    /\ rpc = "done"
    /\ pc' = [pc EXCEPT ![c] = "close_relock"]
    /\ UNCHANGED <<now, managerVars, lock, releaserVars, call, acquireVars,
                   result, scopedVars>>

\* self.lock.acquire() (line 143), then lock_deco's release: close returns.
CloseReturn(c) ==
    /\ pc[c] = "close_relock"
    /\ CanLock(c)
    /\ pc' = [pc EXCEPT ![c] = "idle"]
    /\ call' = [call EXCEPT ![c] = NoCall]
    /\ UNCHANGED <<now, managerVars, lock, releaserVars, acquireVars,
                   result, scopedVars>>

(***************************************************************************)
(* WriteBatch (lines 35-62).  udb.write_batch(transaction) is              *)
(* load_leveldb_deco with the sentinel (lines 266-268); Func builds the    *)
(* batch.                                                                  *)
(***************************************************************************)
WriteBatchCall(c, transaction) ==
    /\ batch[c] = NoBatch
    /\ StartAcquire(c, "write_batch", Arg(INF_RELEASE_TIME), NoArg,
                    transaction)

\* __enter__ (lines 46-50): suspend_releaser().
WriteBatchEnter(c) ==
    /\ pc[c] = "idle"
    /\ batch[c].stage = "created"
    /\ SuspendCall(c, "WriteBatch.__enter__")

\* __exit__ (lines 52-59) with exc_type None or not.  A transaction left
\* by an exception is cleared and __exit__ returns (lines 53-56); else
\* write() commits and calls udb.release() (lines 41-44, 58).
WriteBatchExit(c, exc) ==
    /\ pc[c] = "idle"
    /\ batch[c].stage = "entered"
    /\ IF batch[c].transaction /\ exc
       THEN /\ batch' = [batch EXCEPT ![c] = NoBatch]
            /\ UNCHANGED <<now, managerVars, lock, releaserVars, pc, call,
                           acquireVars, result, iter, inside, store,
                           copyVars>>
       ELSE ReleaseCall(c, "WriteBatch.__exit__")

(***************************************************************************)
(* Iterator (lines 64-91).  udb.iterator() is load_leveldb_deco with the   *)
(* sentinel (lines 262-264); its return builds the Iterator, whose cursor  *)
(* is None.                                                                *)
(***************************************************************************)
IteratorCall(c) ==
    /\ iter[c] = "none"
    /\ StartAcquire(c, "iterator", Arg(INF_RELEASE_TIME), NoArg, FALSE)

\* The first next() on iter(it) runs __iter__ to is_acquired() (line 74),
\* a lock_deco method: with a handle the caller goes on to
\* suspend_releaser(), without one to the acquire loop of lines 77-78.
IteratorStart(c) ==
    /\ pc[c] = "idle"
    /\ iter[c] = "created"
    /\ CanLock(c)
    /\ pc' = [pc EXCEPT ![c] = IF IsAcquired(_db) THEN "suspend" ELSE "acquire"]
    /\ call' = [call EXCEPT ![c] =
          NewCall("Iterator.__iter__", Arg(INF_RELEASE_TIME), NoArg, TRUE,
                  FALSE, NoSnapshot)]
    /\ result' = [result EXCEPT ![c] = None]
    /\ UNCHANGED <<now, managerVars, lock, releaserVars, acquireVars,
                   scopedVars>>

\* self.udb.suspend_releaser() (line 75).
IteratorSuspend(c) ==
    /\ pc[c] = "suspend"
    /\ SuspendCall(c, "Iterator.__iter__")

\* self.udb.db.iterator(...) (line 79): on {} it raises, and the finally
\* of line 81 runs close().
IteratorCursor(c) ==
    /\ pc[c] = "cursor"
    /\ IF IsAcquired(_db)
       THEN /\ iter' = [iter EXCEPT ![c] = "iterating"]
            /\ pc' = [pc EXCEPT ![c] = "idle"]
            /\ call' = [call EXCEPT ![c] = NoCall]
       ELSE /\ pc' = [pc EXCEPT ![c] = "iterator_close"]
            /\ UNCHANGED <<call, iter>>
    /\ result' = [result EXCEPT ![c] = None]
    /\ UNCHANGED <<now, managerVars, lock, releaserVars, acquireVars, batch,
                   inside, store, copyVars>>

\* The generator ends: the cursor is exhausted, the loop body raises or
\* breaks, or the generator is dropped (GeneratorExit); the finally of
\* lines 81-82 runs close().
IteratorEnd(c) ==
    /\ pc[c] = "idle"
    /\ iter[c] = "iterating"
    /\ pc' = [pc EXCEPT ![c] = "iterator_close"]
    /\ UNCHANGED <<now, managerVars, lock, releaserVars, call, acquireVars,
                   result, scopedVars>>

\* Iterator.close() (lines 84-87): udb.release(), the cursor dropped.
IteratorClose(c) ==
    /\ pc[c] = "iterator_close"
    /\ ReleaseCall(c, "Iterator.close")

\* The Iterator is dropped before its first next(): __del__ (lines 89-91)
\* finds self.iterator None and does nothing.
IteratorAbandon(c) ==
    /\ pc[c] = "idle"
    /\ iter[c] = "created"
    /\ iter' = [iter EXCEPT ![c] = "none"]
    /\ UNCHANGED <<now, managerVars, lock, releaserVars, pc, call,
                   acquireVars, result, batch, inside, store, copyVars>>

(***************************************************************************)
(* The manager as a context manager (lines 270-277).  __enter__ is         *)
(* load_leveldb_deco with the sentinel and returns self.  __exit__ with an *)
(* exception raises at line 276 and does not reach release(); with none it *)
(* calls release().                                                        *)
(***************************************************************************)
ContextEnter(c) ==
    /\ ~inside[c]
    /\ StartAcquire(c, "DBUnit.__enter__", Arg(INF_RELEASE_TIME), NoArg, FALSE)

ContextExit(c, exc) ==
    /\ pc[c] = "idle"
    /\ inside[c]
    /\ IF exc
       THEN /\ inside' = [inside EXCEPT ![c] = FALSE]
            /\ UNCHANGED <<now, managerVars, lock, releaserVars, pc, call,
                           acquireVars, result, batch, iter, store,
                           copyVars>>
       ELSE ReleaseCall(c, "DBUnit.__exit__")

(***************************************************************************)
(* Pickling (lines 94-104, 118-134).  A manager is the record of its       *)
(* slots; __getstate__ picks four of them, __setstate__ sets every key of  *)
(* the state it is given and then the deadline, the handle, the lock, the  *)
(* flag and the thread.                                                    *)
(***************************************************************************)
Slots ==
    {"default_timeout", "is_closed", "lock", "path",
     "_auto_release_interval", "_auto_releaser", "_db", "_release_time",
     "_retry_interval"}

\* A slot that was never assigned.
Unset == "unset"

Path == "path"

\* The manager under study, as __getstate__ sees it.
Self ==
    [default_timeout |-> default_timeout,
     is_closed |-> is_closed,
     lock |-> lock,
     path |-> Path,
     _auto_release_interval |-> auto_release_interval,
     _auto_releaser |-> rpc,
     _db |-> _db,
     _release_time |-> _release_time,
     _retry_interval |-> retry_interval]

\* __getstate__ without the path.
GetStateNoPath(self) ==
    [default_timeout |-> self.default_timeout,
     _auto_release_interval |-> self._auto_release_interval,
     _retry_interval |-> self._retry_interval]

\* __getstate__ (lines 118-124).
GetState(self) ==
    [default_timeout |-> self.default_timeout,
     path |-> self.path,
     _auto_release_interval |-> self._auto_release_interval,
     _retry_interval |-> self._retry_interval]

\* __setstate__ (lines 126-134); the new thread is at its first line.
SetState(state) ==
    [k \in Slots |->
        CASE k = "_release_time" -> INF_RELEASE_TIME
          [] k = "_db" -> None
          [] k = "lock" -> FreeLock
          [] k = "is_closed" -> FALSE
          [] k = "_auto_releaser" -> "start"
          [] k \in DOMAIN state -> state[k]
          [] OTHER -> Unset]

\* Placeholders for the state before pickle.dumps and for the manager
\* before pickle.loads.
NoState ==
    [default_timeout |-> 0, path |-> Unset, _auto_release_interval |-> 0,
     _retry_interval |-> 0]

Blank ==
    [default_timeout |-> 0, is_closed |-> FALSE, lock |-> FreeLock,
     path |-> Unset, _auto_release_interval |-> 0, _auto_releaser |-> Unset,
     _db |-> None, _release_time |-> INF_RELEASE_TIME, _retry_interval |-> 0]

\* What get raises when acquire returns False (line 28).
LevelDBAcquisitionFailure == "LevelDBAcquisitionFailure"

\* No copy yet; a copy is the manager built by __setstate__, the position
\* of the thread that calls its get, the locals of that get's acquire and
\* what the get gave.
NoCopy ==
    [made |-> FALSE, self |-> Blank, pc |-> "none", time_limit |-> 0,
     first_flag |-> FALSE, wake |-> 0, got |-> None]

\* Nothing pickled yet.
NoPickle == [taken |-> FALSE, state |-> NoState, stored |-> Nothing]

\* pickle.dumps(udb): the state, kept with what the store holds then.
Dumps(c) ==
    /\ pc[c] = "idle"
    /\ ~pickled.taken
    /\ pickled' = [taken |-> TRUE, state |-> GetState(Self),
                   stored |-> store]
    /\ UNCHANGED <<now, managerVars, lock, releaserVars, pc, call,
                   acquireVars, result, batch, iter, inside, store, copy>>

\* pickle.loads(...): a new manager, here or in another process.
Loads ==
    /\ pickled.taken
    /\ ~copy.made
    /\ copy' = [NoCopy EXCEPT !.made = TRUE,
                              !.self = SetState(pickled.state),
                              !.pc = "idle"]
    /\ UNCHANGED <<now, managerVars, lock, releaserVars, pc, call,
                   acquireVars, result, batch, iter, inside, store, pickled>>

\* The copy's get(key) starts its acquire (lines 224-228).
CopyGet ==
    /\ copy.made
    /\ copy.pc = "idle"
    /\ copy.got = None
    /\ copy' = [copy EXCEPT !.pc = "acquire",
                            !.time_limit =
                                now + Max(copy.self.default_timeout, 0),
                            !.first_flag = TRUE]
    /\ UNCHANGED <<now, managerVars, lock, releaserVars, pc, call,
                   acquireVars, result, batch, iter, inside, store, pickled>>

\* One round of the copy's acquire loop (lines 229-243).  LevelDB lets one
\* opener have the path: plyvel.DB(...) raises plyvel.Error while the
\* other manager has its handle.  With the handle the get reads the store.
CopyAttempt ==
    /\ copy.pc = "acquire"
    /\ copy.first_flag \/ copy.time_limit > now
    /\ IF engine = 0
       THEN /\ engine' = 1
            /\ copy' = [copy EXCEPT
                  !.self = [@ EXCEPT
                      !["_db"] = DB,
                      !["_release_time"] =
                          now + copy.self._auto_release_interval],
                  !.pc = "idle", !.time_limit = 0, !.first_flag = FALSE,
                  !.got = store]
       ELSE /\ copy' = [copy EXCEPT
                  !.pc = "sleep", !.first_flag = FALSE,
                  !.wake = Horizon(now + copy.self._retry_interval)]
            /\ UNCHANGED engine
    /\ UNCHANGED <<now, _db, _release_time, is_closed, lock, releaserVars,
                   pc, call, acquireVars, result, batch, iter, inside, store,
                   pickled>>

\* sleep(self._retry_interval) ends.
CopyRetry ==
    /\ copy.pc = "sleep"
    /\ now >= copy.wake
    /\ copy' = [copy EXCEPT !.pc = "acquire", !.wake = 0]
    /\ UNCHANGED <<now, managerVars, lock, releaserVars, pc, call,
                   acquireVars, result, batch, iter, inside, store, pickled>>

\* The copy's acquire returns False and its get raises (lines 244, 28).
CopyTimeout ==
    /\ copy.pc = "acquire"
    /\ ~(copy.first_flag \/ copy.time_limit > now)
    /\ copy' = [copy EXCEPT !.pc = "idle", !.time_limit = 0,
                            !.got = LevelDBAcquisitionFailure]
    /\ UNCHANGED <<now, managerVars, lock, releaserVars, pc, call,
                   acquireVars, result, batch, iter, inside, store, pickled>>

\* The copy's own background thread closes its handle once due
\* (lines 202-210).
CopyRelease ==
    /\ copy.made
    /\ copy.pc = "idle"
    /\ copy.self._db = DB
    /\ copy.self._release_time <= now
    /\ engine' = engine - 1
    /\ copy' = [copy EXCEPT
          !.self = [@ EXCEPT !["_db"] = None,
                             !["_release_time"] = INF_RELEASE_TIME]]
    /\ UNCHANGED <<now, _db, _release_time, is_closed, lock, releaserVars,
                   pc, call, acquireVars, result, batch, iter, inside, store,
                   pickled>>

CopyStep ==
    \/ CopyGet
    \/ CopyAttempt
    \/ CopyRetry
    \/ CopyTimeout
    \/ CopyRelease

(***************************************************************************)
(* The background thread, _auto_release (lines 196-213).  Its local rt is  *)
(* only compared with the deadline to be printed in a commented-out line,  *)
(* and is left out.                                                        *)
(***************************************************************************)
\* self.lock.acquire() (line 198).
ReleaserStart ==
    /\ rpc = "start"
    /\ CanLock(Releaser)
    /\ lock' = LockAcquire(lock, Releaser)
    /\ rpc' = "outer"
    /\ UNCHANGED <<now, managerVars, rwake, notified, pc, call, acquireVars,
                   result, scopedVars>>

\* while not self.is_closed (line 199); past it, lock.release() (line 212).
ReleaserOuter ==
    /\ rpc = "outer"
    /\ IF is_closed
       THEN rpc' = "done" /\ lock' = LockRelease(lock)
       ELSE rpc' = "inner" /\ UNCHANGED lock
    /\ UNCHANGED <<now, managerVars, rwake, notified, pc, call, acquireVars,
                   result, scopedVars>>

\* while self._wait_predicate() (line 202): true, lock.wait(timeout=0.1)
\* gives the lock up (line 206); false, the thread goes on to line 207.
ReleaserInner ==
    /\ rpc = "inner"
    /\ IF WaitPredicate(_db, _release_time, now)
       THEN /\ rpc' = "wait"
            /\ rwake' = Horizon(now + PollTicks)
            /\ lock' = LockRelease(lock)
       ELSE /\ rpc' = "close"
            /\ UNCHANGED <<rwake, lock>>
    /\ notified' = FALSE
    /\ UNCHANGED <<now, managerVars, pc, call, acquireVars, result,
                   scopedVars>>

\* lock.wait returns, on a notify or on its timeout, with the lock again.
ReleaserWake ==
    /\ rpc = "wait"
    /\ notified \/ now >= rwake
    /\ CanLock(Releaser)
    /\ lock' = LockAcquire(lock, Releaser)
    /\ rpc' = "inner"
    /\ rwake' = 0
    /\ notified' = FALSE
    /\ UNCHANGED <<now, managerVars, pc, call, acquireVars, result,
                   scopedVars>>

\* Lines 207-209 without the reset of the deadline of line 210.
ReleaserCloseKeepsDeadline ==
    /\ rpc = "close"
    /\ _db' = None
    /\ engine' = engine - 1
    /\ rpc' = "outer"
    /\ UNCHANGED <<now, _release_time, is_closed, lock, rwake, notified, pc,
                   call, acquireVars, result, scopedVars>>

\* The handle is closed and dropped, the deadline reset (lines 207-210).
ReleaserClose ==
    /\ rpc = "close"
    /\ _db' = None
    /\ engine' = engine - 1
    /\ _release_time' = INF_RELEASE_TIME
    /\ rpc' = "outer"
    /\ UNCHANGED <<now, is_closed, lock, rwake, notified, pc, call,
                   acquireVars, result, scopedVars>>

(***************************************************************************)
(* The manager after __init__ (lines 106-116): no handle, the sentinel as  *)
(* deadline, the background thread started and not yet at its first line.  *)
(***************************************************************************)
Init ==
    /\ now = 0
    /\ _db = None
    /\ engine = 0
    /\ _release_time = INF_RELEASE_TIME
    /\ is_closed = FALSE
    /\ lock = FreeLock
    /\ rpc = "start"
    /\ rwake = 0
    /\ notified = FALSE
    /\ pc = [c \in Callers |-> "idle"]
    /\ call = [c \in Callers |-> NoCall]
    /\ time_limit = [c \in Callers |-> 0]
    /\ first_flag = [c \in Callers |-> FALSE]
    /\ wake = [c \in Callers |-> 0]
    /\ result = [c \in Callers |-> None]
    /\ batch = [c \in Callers |-> NoBatch]
    /\ iter = [c \in Callers |-> "none"]
    /\ inside = [c \in Callers |-> FALSE]
    /\ store = Nothing
    /\ pickled = NoPickle
    /\ copy = NoCopy

\* The arguments callers pass to acquire and restart_releaser.
\* None, the sentinel, and a day and 1.3 seconds: an interval whose
\* timedelta has a seconds component of 1 and a days component of 1.
LongInterval == SecondsPerDay * TicksPerSec + 13

ReleaseIntervals == {NoArg, Arg(INF_RELEASE_TIME), Arg(LongInterval)}

Timeouts == {NoArg, Arg(0)}

ReleaserStep ==
    \/ ReleaserStart
    \/ ReleaserOuter
    \/ ReleaserInner
    \/ ReleaserWake
    \/ ReleaserClose

AcquireStep(c) ==
    \/ AcquireEnter(c)
    \/ AcquireSucceed(c)
    \/ AcquireBusy(c)
    \/ AcquireRetry(c)
    \/ AcquireTimeout(c)

\* What a caller inside an operation does next.
InOperation(c) ==
    \/ AcquireStep(c)
    \/ Return(c)
    \/ Func(c)
    \/ CloseJoin(c)
    \/ CloseReturn(c)

\* The manager with a caller that uses its lease methods and the facade.
Next ==
    \/ Tick
    \/ ReleaserStep
    \/ \E c \in Single :
        \/ InOperation(c)
        \/ \E op \in FacadeOps : Facade(c, op)
        \/ \E ri \in ReleaseIntervals, to \in Timeouts : Acquire(c, ri, to)
        \/ Release(c)
        \/ SuspendReleaser(c)
        \/ \E ri \in ReleaseIntervals : RestartReleaser(c, ri)
        \/ CloseEnter(c)

Spec == Init /\ [][Next]_vars

(***************************************************************************)
(* The manager under close(): one caller that reads, suspends the          *)
(* deadline and closes, with the scheduling the threads get: the clock     *)
(* advances, the background thread runs when it can, and a caller inside   *)
(* an operation goes on with it.                                           *)
(***************************************************************************)
NextClose ==
    \/ Tick
    \/ ReleaserStep
    \/ \E c \in Single :
        \/ InOperation(c)
        \/ Facade(c, "get")
        \/ SuspendReleaser(c)
        \/ CloseEnter(c)

Fairness ==
    /\ WF_vars(Tick)
    /\ WF_vars(ReleaserStep)
    /\ \A c \in Callers : WF_vars(InOperation(c))

CloseSpec == Init /\ [][NextClose]_vars /\ Fairness

(***************************************************************************)
(* The manager with a caller that uses the facade, WriteBatch and          *)
(* Iterator.                                                               *)
(***************************************************************************)
ScopedStep(c) ==
    \/ \E tx \in BOOLEAN : WriteBatchCall(c, tx)
    \/ WriteBatchEnter(c)
    \/ \E exc \in BOOLEAN : WriteBatchExit(c, exc)
    \/ IteratorCall(c)
    \/ IteratorStart(c)
    \/ IteratorSuspend(c)
    \/ IteratorCursor(c)
    \/ IteratorEnd(c)
    \/ IteratorClose(c)
    \/ IteratorAbandon(c)

NextScoped ==
    \/ Tick
    \/ ReleaserStep
    \/ \E c \in Single :
        \/ AcquireStep(c)
        \/ Return(c)
        \/ Func(c)
        \/ \E op \in FacadeOps : Facade(c, op)
        \/ ScopedStep(c)

ScopedSpec == Init /\ [][NextScoped]_vars

(***************************************************************************)
(* The manager with a caller that reads and uses "with udb:" blocks.       *)
(***************************************************************************)
NextContext ==
    \/ Tick
    \/ ReleaserStep
    \/ \E c \in Single :
        \/ AcquireStep(c)
        \/ Return(c)
        \/ Func(c)
        \/ Facade(c, "get")
        \/ ContextEnter(c)
        \/ \E exc \in BOOLEAN : ContextExit(c, exc)

ContextSpec == Init /\ [][NextContext]_vars

(***************************************************************************)
(* The manager pickled and loaded: a caller that writes and pickles the    *)
(* manager, and the copy, on which get is called once.                     *)
(***************************************************************************)
NextPickle ==
    \/ Tick
    \/ ReleaserStep
    \/ Loads
    \/ CopyStep
    \/ \E c \in Single :
        \/ AcquireStep(c)
        \/ Return(c)
        \/ Func(c)
        \/ Facade(c, "put")
        \/ Dumps(c)

PickleSpec == Init /\ [][NextPickle]_vars

(***************************************************************************)
(* The manager shared by two caller threads that read, acquire, release,   *)
(* suspend the deadline and close.                                         *)
(***************************************************************************)
NextShared ==
    \/ Tick
    \/ ReleaserStep
    \/ \E c \in Callers :
        \/ InOperation(c)
        \/ Facade(c, "get")
        \/ Acquire(c, NoArg, NoArg)
        \/ Release(c)
        \/ SuspendReleaser(c)
        \/ CloseEnter(c)

SharedSpec == Init /\ [][NextShared]_vars

(***************************************************************************)
(* Properties.                                                             *)
(***************************************************************************)
\* The handle is open and its deadline is the sentinel: never auto-closed.
Indefinite == IsAcquired(_db) /\ _release_time = INF_RELEASE_TIME

\* A WriteBatch holds the handle from write_batch() to the end of its
\* scope, an Iterator from iterator() to its close.
BatchActive(c) == batch[c].stage \in {"created", "entered"}

IteratorActive(c) == iter[c] \in {"created", "iterating"}

NumHolds ==
    Cardinality({c \in Callers : BatchActive(c)})
      + Cardinality({c \in Callers : IteratorActive(c)})

\* The operations that end in udb.release().
ReleaseOps ==
    {"release", "WriteBatch.__exit__", "Iterator.close", "DBUnit.__exit__"}

IndefiniteBefore(c) ==
    call[c].before = [db |-> DB, release_time |-> INF_RELEASE_TIME]

Distance(a, b) == IF a >= b THEN a - b ELSE b - a

\* C1: with two holds active (a WriteBatch and an Iterator), the release
\* of the first holder that ends, which found the deadline indefinite,
\* leaves the handle open and the deadline indefinite for the other.
C1_FirstReleaseKeepsHold ==
    \A c \in Callers :
        (/\ pc[c] = "return"
         /\ call[c].op \in {"WriteBatch.__exit__", "Iterator.close"}
         /\ IndefiniteBefore(c)
         /\ NumHolds >= 2)
        => Indefinite

\* C2: once is_closed is set and the handle is absent, no step opens the
\* handle again.
C2_NoOpenAfterClose ==
    [][(is_closed /\ ~IsAcquired(_db)) => ~IsAcquired(_db')]_vars

\* C3: close() called on a manager whose handle is absent eventually
\* returns: the background thread sees is_closed and ends, the join ends.
C3_CloseReturns ==
    \A c \in Callers :
        (pc[c] = "close_join" /\ ~IsAcquired(_db)) ~> (pc[c] = "idle")

\* C4: when the scope of a WriteBatch ends, on any exit path, release()
\* has been called: a handle still open has a concrete deadline.
C4_BatchExitReleases ==
    [][\A c \in Callers :
          (batch[c].stage = "entered" /\ batch'[c] = NoBatch)
          => (IsAcquired(_db') => _release_time' # INF_RELEASE_TIME)]_vars

\* C5: when an Iterator ends, by exhaustion, close, error or abandonment,
\* release() has been called: a handle still open has a concrete deadline.
C5_IteratorEndReleases ==
    [][\A c \in Callers :
          (IteratorActive(c) /\ iter'[c] = "none")
          => (IsAcquired(_db') => _release_time' # INF_RELEASE_TIME)]_vars

\* C6: a get, put or delete made while a WriteBatch or an Iterator is
\* active, on a handle whose deadline is indefinite, leaves it indefinite.
C6_FacadeKeepsHold ==
    \A c \in Callers :
        (/\ pc[c] = "return"
         /\ call[c].op \in FacadeOps
         /\ IndefiniteBefore(c)
         /\ NumHolds >= 1)
        => Indefinite

\* C7: acquire(timeout=0) makes one open attempt: it never sleeps, and
\* never comes back to the loop for a second attempt.
C7_ZeroTimeoutOneAttempt ==
    \A c \in Callers :
        (call[c].op = "acquire" /\ call[c].timeout = Arg(0))
        => /\ pc[c] # "acquire_sleep"
           /\ pc[c] = "acquire_loop" => first_flag[c]

\* The acquire of a get, put or delete returns True in this step.
FacadeSucceeds(c) ==
    /\ call[c].op \in FacadeOps
    /\ pc[c] = "acquire_loop"
    /\ pc'[c] = "return"
    /\ result'[c] = "True"

ReleaseActs(c) ==
    /\ pc[c] \in {"idle", "iterator_close"}
    /\ pc'[c] = "return"
    /\ call'[c].op \in ReleaseOps

C10_CloseOnlyPastDeadline ==
    [][(IsAcquired(_db) /\ ~IsAcquired(_db'))
          => /\ rpc = "close"
             /\ lock.owner = Releaser
             /\ _release_time # INF_RELEASE_TIME
             /\ _release_time <= now]_vars

\* The background thread has just closed the handle that close() found
\* open.
C10_Witness ==
    /\ rpc = "outer"
    /\ ~IsAcquired(_db)
    /\ _release_time = INF_RELEASE_TIME
    /\ \E c \in Callers : pc[c] = "close_join" /\ call[c].before.db = DB

\* No caller is inside an operation.
AllIdle == \A c \in Callers : pc[c] = "idle"

\* C11: a handle open with a concrete deadline (one the clock reaches) is
\* eventually closed by the background thread, unless a caller invokes an
\* operation first.
C11_DueHandleClosed ==
    (/\ AllIdle
     /\ IsAcquired(_db)
     /\ _release_time # INF_RELEASE_TIME
     /\ _release_time <= MaxTime)
    ~> (~IsAcquired(_db) \/ ~AllIdle)

\* C12: whenever no thread holds the lock, a concrete deadline exists only
\* while the handle is open: an absent handle carries the sentinel.  (An
\* open handle carries a concrete deadline or the sentinel, which then
\* reads "indefinite"; is_acquired() is the test "_db is not None".)
C12_ConcreteDeadlineOnlyWhileOpen ==
    lock.owner = NoThread
    => (_release_time # INF_RELEASE_TIME => IsAcquired(_db))

\* The handle a get had acquired has been closed by the background thread
\* and its deadline reset, and no thread holds the lock.
C12_Witness ==
    /\ lock.owner = NoThread
    /\ ~IsAcquired(_db)
    /\ _release_time = INF_RELEASE_TIME
    /\ rpc = "wait"
    /\ \E c \in Callers : pc[c] = "func" /\ call[c].op = "get"

\* C13: at most one engine handle is open at any time; plyvel.DB(...) is
\* called only while the handle is absent, by a caller that holds the
\* lock in acquire; and a handle reference is dropped only together with
\* the close of that handle.
C13_OneHandle ==
    [][/\ engine' <= 1
       /\ (engine' = 1) <=> IsAcquired(_db')
       /\ engine' > engine
            => /\ ~IsAcquired(_db)
               /\ \E c \in Callers :
                     lock.owner = c /\ pc[c] = "acquire_loop"
       /\ (IsAcquired(_db) /\ _db' # _db) => engine' = engine - 1]_vars

\* One caller's acquire has found the handle another caller opened and
\* still uses.
C13_Witness ==
    \E c, d \in Callers :
        /\ c # d
        /\ pc[c] = "return"
        /\ call[c].op \in {"get", "acquire"}
        /\ call[c].before.db = DB
        /\ result[c] = "True"
        /\ pc[d] = "func"
        /\ engine = 1

\* C14: the deadline changes from one concrete instant to another only if
\* the two differ by more than 100 ms, and the background thread is
\* notified only by a step that stores a new concrete deadline; so an
\* update within 100 ms of the concrete deadline in force changes nothing
\* and wakes nobody.
C14_Debounce ==
    [][/\ _release_time' # _release_time
            => \/ _release_time = INF_RELEASE_TIME
               \/ _release_time' = INF_RELEASE_TIME
               \/ Distance(_release_time', _release_time) > DebounceTicks
       /\ (notified' /\ ~notified)
            => /\ _release_time' # _release_time
               /\ _release_time' # INF_RELEASE_TIME]_vars

\* A get asked for a deadline 100 ms after the concrete one in force: the
\* deadline is as it was and the background thread, which waits, has not
\* been notified.
C14_Witness ==
    \E c \in Callers :
        /\ pc[c] = "return"
        /\ call[c].op \in FacadeOps
        /\ result[c] = "True"
        /\ call[c].before.db = DB
        /\ call[c].before.release_time # INF_RELEASE_TIME
        /\ now + auto_release_interval
             = call[c].before.release_time + DebounceTicks
        /\ _release_time = call[c].before.release_time
        /\ rpc = "wait"
        /\ ~notified

\* C15: an acquire whose open attempt fails sleeps retry_interval and
\* leaves handle and deadline alone; it returns False only once its time
\* limit has passed, with the handle absent and the deadline the sentinel;
\* and a get, put or delete whose acquire returned False never goes on to
\* the engine call.
C15_FailedAcquire ==
    [][\A c \in Callers :
          /\ (pc[c] = "acquire_loop" /\ pc'[c] = "acquire_sleep")
               => /\ wake'[c] = Horizon(now + retry_interval)
                  /\ _db' = _db
                  /\ _release_time' = _release_time
          /\ (pc[c] = "acquire_loop" /\ result'[c] = "False")
               => /\ now >= time_limit[c]
                  /\ ~IsAcquired(_db')
                  /\ _release_time' = INF_RELEASE_TIME
          /\ (pc[c] = "return" /\ result[c] = "False"
                /\ call[c].op \in FacadeOps)
               => pc'[c] \in {"return", "idle"}]_vars

\* The acquire of a get has returned False after default_timeout, the
\* handle is absent.
C15_Witness ==
    \E c \in Callers :
        /\ pc[c] = "return"
        /\ call[c].op = "get"
        /\ result[c] = "False"
        /\ now >= default_timeout
        /\ ~IsAcquired(_db)
        /\ _release_time = INF_RELEASE_TIME

\* C16: when a caller gets into a "with udb:" block the handle is open
\* and the deadline indefinite; when it leaves the block, normally or by
\* an exception, release() has run: a handle still open has a concrete
\* deadline.
C16_ContextReleasesOnExit ==
    [][\A c \in Callers :
          /\ (~inside[c] /\ inside'[c]) => Indefinite'
          /\ (inside[c] /\ ~inside'[c])
               => (IsAcquired(_db') => _release_time' # INF_RELEASE_TIME)]_vars

\* The configuration of the manager under study.
Config ==
    [default_timeout |-> default_timeout,
     path |-> Path,
     _auto_release_interval |-> auto_release_interval,
     _retry_interval |-> retry_interval]

\* What was pickled is exactly the four configuration values.
PickledIsConfig == pickled.taken => pickled.state = Config

\* The copy has the configuration of the original and is not closed; until
\* its first get it has no handle, the sentinel as deadline and a thread
\* of its own at its first line.
CopyIsFresh ==
    copy.made
    => /\ \A k \in DOMAIN Config : copy.self[k] = Config[k]
       /\ copy.self.is_closed = FALSE
       /\ copy.self._auto_releaser = "start"
       /\ (copy.pc = "idle" /\ copy.got = None)
            => /\ copy.self._db = None
               /\ copy.self._release_time = INF_RELEASE_TIME

C18_EngineCallOnOpenHandle ==
    \A c \in Callers :
        (pc[c] = "func" /\ call[c].op \in FacadeOps) => IsAcquired(_db)

(***************************************************************************)
(* Errors of the engine during acquire (lines 232-243).  The except clause *)
(* of line 239 takes every instance of plyvel.Error, the base class of the *)
(* engine's errors; any other exception leaves acquire, and leaves         *)
(* lock_deco between its lines 18 and 20.                                  *)
(***************************************************************************)
Exceptions == {"plyvel.Error", "Exception"}

\* The most lock levels the model lets a caller keep.
MaxHeld == 2

\* plyvel.DB(...) raises exc (line 235).  An instance of plyvel.Error is
\* bound to e (line 239) and the caller sleeps and tries again; anything
\* else goes up through the wrapper of lock_deco, whose lock.release()
\* (line 20) is not run.
AcquireRaise(c, exc) ==
    /\ pc[c] = "acquire_loop"
    /\ LoopCondition(c)
    /\ ~IsAcquired(_db)
    /\ result' = [result EXCEPT ![c] = exc]
    /\ IF exc = "plyvel.Error"
       THEN /\ first_flag' = [first_flag EXCEPT ![c] = FALSE]
            /\ wake' = [wake EXCEPT ![c] = Horizon(now + retry_interval)]
            /\ pc' = [pc EXCEPT ![c] = "acquire_sleep"]
            /\ UNCHANGED <<call, time_limit>>
       ELSE /\ lock.count <= MaxHeld
            /\ pc' = [pc EXCEPT ![c] = "idle"]
            /\ call' = [call EXCEPT ![c] = NoCall]
            /\ DropLocals(c)
            /\ UNCHANGED wake
    /\ UNCHANGED <<now, managerVars, lock, releaserVars, scopedVars>>

\* Two callers of acquire and get on a manager whose engine can fail.
NextError ==
    \/ Tick
    \/ ReleaserStep
    \/ \E c \in Callers :
        \/ AcquireStep(c)
        \/ \E exc \in Exceptions : AcquireRaise(c, exc)
        \/ Return(c)
        \/ Func(c)
        \/ Facade(c, "get")
        \/ Acquire(c, NoArg, NoArg)
        \/ Release(c)

ErrorSpec == Init /\ [][NextError]_vars

\* C19: when the engine raises an error in acquire that is not to be
\* retried, the call ends there with that error, the caller no longer
\* holds the manager lock, and handle and deadline are as they were.
C19_ErrorPropagatedLockFree ==
    [][\A c \in Callers :
          (pc[c] = "acquire_loop" /\ result'[c] \in Exceptions)
          => /\ pc'[c] = "idle"
             /\ lock'.owner # c
             /\ _db' = _db
             /\ _release_time' = _release_time]_vars

\* C20: no step of a caller takes an open handle away; a release() leaves
\* the handle, the engine, the closed flag and the stored data as they
\* were; the handle goes from open to absent only in the close step of the
\* background thread, which holds the lock while no caller moves.
C20_CallersNeverClose ==
    [][/\ (pc' # pc /\ IsAcquired(_db))
            => (_db' = _db /\ engine' = engine)
       /\ \A c \in Callers :
            (ReleaseActs(c) /\ call'[c].op = "release")
            => UNCHANGED <<_db, engine, is_closed, store, batch, iter,
                           inside>>
       /\ (IsAcquired(_db) /\ ~IsAcquired(_db'))
            => /\ rpc = "close" /\ rpc' = "outer"
               /\ lock.owner = Releaser
               /\ pc' = pc /\ call' = call]_vars

\* release() has run on an open handle: the deadline is now, and the
\* handle is still open.
C20_Witness ==
    \E c \in Callers :
        /\ pc[c] = "return"
        /\ call[c].op = "release"
        /\ call[c].before.db = DB
        /\ call[c].before.release_time # now
        /\ _db = DB
        /\ _release_time = now

=============================================================================
